---- MODULE Spec2Model ----
(***************************************************************************)
(* The hash-chain integrity engine of ClearLine Pipeline                   *)
(* (src/demo_functionality/hash_chain.py) over the dbo.Readings table.     *)
(*                                                                         *)
(* Python values are tagged pairs <<type, payload>> so that the rendering  *)
(* of a value into the hash input (an f-string) is modelled by what it     *)
(* does for each type.  Text is a TLA+ string; "\o" is concatenation.      *)
(* SHA-256 is modelled as an injective function of the hashed text (no     *)
(* collisions): the digest of s is the text "sha256(" s ")".               *)
(***************************************************************************)
EXTENDS Integers, Sequences, FiniteSets, TLC

(***************************************************************************)
(* Bounds of the model.                                                    *)
(***************************************************************************)
MaxReadings == 3      \* rows the table may hold
MaxTampers  == 1      \* direct SQL UPDATEs made behind the engine's back
MaxFailures == 1      \* store failures injected

(***************************************************************************)
(* Python values.                                                          *)
(***************************************************************************)
PyStr(s)      == <<"str", s>>
PyInt(n)      == <<"int", n>>
PyFloat(n)    == <<"float", n>>
PyDatetime(m) == <<"datetime", m>>     \* base_time + m minutes
PyNone        == <<"NoneType", 0>>

type(v)  == v[1]
value(v) == v[2]

\* ReadingID stands for "no id" (Python None) in a returned tuple.
NoId == 0

\* Minutes after base_time that a reading's timestamp may carry.
Minutes == {0, 5}

\* datetime.isoformat(): 'T' separator, no fractional part when microsecond = 0.
isoformat(dt) == "2026-02-07T10:0" \o ToString(value(dt)) \o ":00"

\* str(x), the rendering an f-string applies to a value.
str(v) ==
  CASE type(v) = "str"      -> value(v)
    [] type(v) = "int"      -> ToString(value(v))
    [] type(v) = "float"    -> ToString(value(v)) \o ".0"
    [] type(v) = "datetime" -> "2026-02-07 10:0" \o ToString(value(v)) \o ":00"
    [] type(v) = "NoneType" -> "None"

\* hashlib.sha256(data_string.encode('utf-8')).hexdigest(), collision free.
sha256_hexdigest(data_string) == "sha256(" \o data_string \o ")"

generate_reading_hash(timestamp, segment_id, sensor_id, pressure_psig, maop_psig, recorded_by, data_source, previous_hash) ==
  LET timestamp_str == IF type(timestamp) = "datetime"
                       THEN isoformat(timestamp)
                       ELSE str(timestamp)
      data_string == timestamp_str \o "|" \o str(segment_id) \o "|"
                     \o str(sensor_id) \o "|" \o str(pressure_psig) \o "|"
                     \o str(maop_psig) \o "|" \o str(recorded_by) \o "|"
                     \o str(data_source) \o "|" \o str(previous_hash)
  IN PyStr(sha256_hexdigest(data_string))

(***************************************************************************)
(* The store: dbo.Readings.  A datetime2 column holds an instant, so a     *)
(* timestamp bound as text is converted on INSERT and comes back from a    *)
(* SELECT as a datetime.  Every text below denotes base_time + m minutes.  *)
(***************************************************************************)
TimestampTexts(m) ==
  { isoformat(PyDatetime(m)),                 \* 2026-02-07T10:0m:00
    isoformat(PyDatetime(m)) \o ".000" }      \* 2026-02-07T10:0m:00.000

ToDatetime2(timestamp) ==
  IF type(timestamp) \in {"datetime", "NoneType"}
  THEN timestamp
  ELSE PyDatetime(CHOOSE m \in Minutes : value(timestamp) \in TimestampTexts(m))

\* A float column holds a number as a float, whatever Python number was
\* bound to the INSERT parameter, and a SELECT returns it as a float.
ToFloatColumn(number) ==
  IF type(number) = "int" THEN PyFloat(value(number)) ELSE number

\* Mutant: the identity value is folded into the stored digest.
InsertedRowSaltedById(reading_id, a, current_hash) ==
  [ ReadingID      |-> reading_id,
    Timestamp      |-> ToDatetime2(a.timestamp),
    SegmentID      |-> a.segment_id,
    SensorID       |-> a.sensor_id,
    PressurePSIG   |-> ToFloatColumn(a.pressure_psig),
    MAOP_PSIG      |-> ToFloatColumn(a.maop_psig),
    RecordedBy     |-> a.recorded_by,
    DataSource     |-> a.data_source,
    DataQuality    |-> a.data_quality,
    Notes          |-> a.notes,
    hash_signature |-> PyStr(sha256_hexdigest(ToString(reading_id) \o "|"
                                              \o str(current_hash))) ]

\* The row INSERT stores for the bound parameters, with its identity value.
InsertedRow(reading_id, a, current_hash) ==
  [ ReadingID      |-> reading_id,
    Timestamp      |-> ToDatetime2(a.timestamp),
    SegmentID      |-> a.segment_id,
    SensorID       |-> a.sensor_id,
    PressurePSIG   |-> ToFloatColumn(a.pressure_psig),
    MAOP_PSIG      |-> ToFloatColumn(a.maop_psig),
    RecordedBy     |-> a.recorded_by,
    DataSource     |-> a.data_source,
    DataQuality    |-> a.data_quality,
    Notes          |-> a.notes,
    hash_signature |-> current_hash ]

\* Argument sets of insert_reading_with_hash calls.
Reading(timestamp, segment_id, sensor_id, pressure, maop) ==
  [ timestamp     |-> timestamp,
    segment_id    |-> PyStr(segment_id),
    sensor_id     |-> PyInt(sensor_id),
    pressure_psig |-> PyFloat(pressure),
    maop_psig     |-> PyFloat(maop),
    recorded_by   |-> PyStr("SCADA"),
    data_source   |-> PyStr("SCADA"),
    data_quality  |-> PyStr("GOOD"),
    notes         |-> PyNone ]

\* Calls whose timestamp is a datetime object.
DatetimeCalls ==
  { Reading(PyDatetime(0), "SEG-01", 1, 750, 1000) }

\* Calls whose timestamp is an ISO-8601 string.
StringCalls ==
  { Reading(PyStr("2026-02-07T10:05:00.000"), "SEG-02", 2, 800, 950) }

Calls == DatetimeCalls \cup StringCalls

\* Calls whose sensor_id is None: get_sensor_id found no sensor of the segment.
NoneCalls ==
  { [Reading(PyDatetime(5), "SEG-02", 2, 800, 950) EXCEPT !.sensor_id = PyNone] }

\* Calls whose pressure and limit are Python integers.
IntCalls ==
  { [Reading(PyDatetime(5), "SEG-03", 3, 650, 875)
       EXCEPT !.pressure_psig = PyInt(650), !.maop_psig = PyInt(875)] }

AllCalls == Calls \cup NoneCalls \cup IntCalls


(***************************************************************************)
(* State.                                                                  *)
(***************************************************************************)
VARIABLES
  readings,       \* committed rows of dbo.Readings, ascending ReadingID
  nextId,         \* next IDENTITY value of ReadingID
  pc,             \* per process: the statement it is about to execute
  args,           \* per process: arguments of the running insert call
  previous_hash,  \* per process: local previous_hash
  current_hash,   \* per process: local current_hash
  reading_id,     \* per process: local reading_id
  fetched,        \* per process: rows returned by cursor.fetchall()
  updated_count,  \* per process: local updated_count of rebuild
  txn,            \* per process: writes of the open connection, not committed
  ret,            \* per process: what the last finished call returned
  before,         \* history: the committed table when the running call began
  sealed,         \* history: per committed insert, its id and previous_hash
  tampered,       \* history: cells updated out of band, <<ReadingID, column>>
  rebuilt,        \* history: a rebuild has committed
  failures,       \* store failures injected so far
  df,             \* the DataFrame of readings handed to the transient filter
  inp,            \* the arguments of a call of a function of numbers
  out,            \* what the last call of the filter or the evaluator gave
  notes,          \* committed rows of dbo.EngineeringReconciliation
  nextNoteId,     \* next IDENTITY value of NoteID
  noteCall,       \* per process: the locals of its add_engineering_note call
  noteLog         \* history: per committed note, its id and supersedes_id

vars == << readings, nextId, pc, args, previous_hash, current_hash, reading_id,
           fetched, updated_count, txn, ret, before, sealed, tampered, rebuilt,
           failures, df, inp, out, notes, nextNoteId, noteCall, noteLog >>

ledgerVars == << notes, nextNoteId, noteCall, noteLog >>

Procs       == {"p1", "p2"}
SerialProcs == {"p1"}

NoArgs == Reading(PyDatetime(0), "", 0, 0, 0)
NoTxn  == [ins |-> <<>>, upd |-> <<>>]
\* What a call returned: op names the call, ok is FALSE when it raised,
\* after names the call of the same client that returned just before it.
NoInput == [current_pressure |-> 0, maop |-> 0, moving_avg_pressure |-> 0,
            threshold_pct |-> 0, thresholds |-> <<>>]
NoOut   == [op |-> "none"]

\* The locals of a call of add_engineering_note_with_hash: named tells that
\* supersedes_id named a stored note when the call was made; ins and upd are
\* the writes of the open connection.
NoNoteCall == [pc |-> "idle", supersedes_id |-> NoId, version_number |-> 1,
               note_id |-> NoId, named |-> FALSE, ins |-> <<>>, upd |-> <<>>]

NoRet  == [op |-> "none", ok |-> TRUE, after |-> "none", reading_id |-> NoId,
           hash |-> PyNone, valid |-> TRUE, broken |-> NoId, count |-> 0]

Init ==
  /\ readings = <<>>
  /\ nextId = 1
  /\ pc = [p \in Procs |-> "idle"]
  /\ args = [p \in Procs |-> NoArgs]
  /\ previous_hash = [p \in Procs |-> PyStr("")]
  /\ current_hash = [p \in Procs |-> PyStr("")]
  /\ reading_id = [p \in Procs |-> NoId]
  /\ fetched = [p \in Procs |-> <<>>]
  /\ updated_count = [p \in Procs |-> 0]
  /\ txn = [p \in Procs |-> NoTxn]
  /\ ret = [p \in Procs |-> NoRet]
  /\ before = [p \in Procs |-> <<>>]
  /\ sealed = <<>>
  /\ tampered = {}
  /\ rebuilt = FALSE
  /\ failures = 0
  /\ df = <<>>
  /\ inp = NoInput
  /\ out = NoOut
  /\ notes = {}
  /\ nextNoteId = 1
  /\ noteCall = [p \in Procs |-> NoNoteCall]
  /\ noteLog = <<>>

(***************************************************************************)
(* The connection (db_config.py).  pyodbc.connect(conn_str) opens it with  *)
(* autocommit off: a write is pending until conn.commit(), and close()     *)
(* without commit rolls it back.                                           *)
(***************************************************************************)
\* Mutant: the connection is opened with autocommit=True.
AutocommitOn == TRUE

Autocommit == FALSE

\* Mutant: the UPDATE also rewrites the quality flag of the row.
UpdateHashAndQuality(row, new_hash) ==
  [row EXCEPT !.hash_signature = new_hash, !.DataQuality = PyStr("REBUILT")]

\* UPDATE dbo.Readings SET hash_signature = ? WHERE ReadingID = ?
UpdateHash(row, new_hash) == [row EXCEPT !.hash_signature = new_hash]

UpdateRows(rows, id, new_hash) ==
  [i \in DOMAIN rows |-> IF rows[i].ReadingID = id
                         THEN UpdateHash(rows[i], new_hash)
                         ELSE rows[i]]

\* INSERT INTO dbo.Readings: the clustered key keeps rows in ReadingID order.
InsertRows(rows, row) ==
  LET lower  == SelectSeq(rows, LAMBDA r : r.ReadingID < row.ReadingID)
      higher == SelectSeq(rows, LAMBDA r : r.ReadingID > row.ReadingID)
  IN lower \o <<row>> \o higher

RECURSIVE ApplyUpdates(_, _)
ApplyUpdates(rows, upd) ==
  IF upd = <<>> THEN rows
  ELSE ApplyUpdates(UpdateRows(rows, Head(upd)[1], Head(upd)[2]), Tail(upd))

RECURSIVE ApplyInserts(_, _)
ApplyInserts(rows, ins) ==
  IF ins = <<>> THEN rows
  ELSE ApplyInserts(InsertRows(rows, Head(ins)), Tail(ins))

\* conn.commit(): the pending writes of the connection become visible.
Committed(rows, t) == ApplyInserts(ApplyUpdates(rows, t.upd), t.ins)

\* Locks of pending writes (READ COMMITTED): a SELECT waits for them.
HasPending(q) == txn[q] # NoTxn

TableReadable(p) == \A q \in Procs \ {p} : ~HasPending(q)

MaxCommittedId == IF readings = <<>> THEN NoId
                  ELSE readings[Len(readings)].ReadingID

TailReadable(p) ==
  \A q \in Procs \ {p} :
    /\ \A k \in DOMAIN txn[q].ins : txn[q].ins[k].ReadingID < MaxCommittedId
    /\ \A k \in DOMAIN txn[q].upd : txn[q].upd[k][1] # MaxCommittedId

\* The locals of a call are dropped when it returns or raises.
Return(p, r) ==
  /\ pc' = [pc EXCEPT ![p] = "idle"]
  /\ ret' = [ret EXCEPT ![p] = r]
  /\ args' = [args EXCEPT ![p] = NoArgs]
  /\ previous_hash' = [previous_hash EXCEPT ![p] = PyStr("")]
  /\ current_hash' = [current_hash EXCEPT ![p] = PyStr("")]
  /\ reading_id' = [reading_id EXCEPT ![p] = NoId]
  /\ fetched' = [fetched EXCEPT ![p] = <<>>]
  /\ updated_count' = [updated_count EXCEPT ![p] = 0]
  /\ txn' = [txn EXCEPT ![p] = NoTxn]

(***************************************************************************)
(* get_latest_hash and insert_reading_with_hash.                           *)
(***************************************************************************)
\* Mutant: the tail is taken by Timestamp (ORDER BY Timestamp DESC).
get_latest_hash_by_timestamp(rows) ==
  IF rows = <<>> THEN PyStr("")
  ELSE LET latest == CHOOSE i \in DOMAIN rows :
                       \A j \in DOMAIN rows :
                         \/ value(rows[j].Timestamp) < value(rows[i].Timestamp)
                         \/ /\ value(rows[j].Timestamp) = value(rows[i].Timestamp)
                            /\ j <= i
       IN IF rows[latest].hash_signature \notin {PyNone, PyStr("")}
          THEN rows[latest].hash_signature
          ELSE PyStr("")

\* SELECT TOP 1 hash_signature ... ORDER BY ReadingID DESC, then the test
\* "if result and result.hash_signature".
get_latest_hash(rows) ==
  IF rows # <<>> /\ rows[Len(rows)].hash_signature \notin {PyNone, PyStr("")}
  THEN rows[Len(rows)].hash_signature
  ELSE PyStr("")

InFlightInserts == Cardinality({q \in Procs : pc[q] \in {"get_latest_hash", "execute", "commit"}})

InsertCall(p, a) ==
  /\ pc[p] = "idle"
  /\ Len(readings) + InFlightInserts < MaxReadings
  /\ pc' = [pc EXCEPT ![p] = "get_latest_hash"]
  /\ args' = [args EXCEPT ![p] = a]
  /\ before' = [before EXCEPT ![p] = readings]
  /\ ret' = [ret EXCEPT ![p] = NoRet]
  /\ UNCHANGED << ledgerVars, df, inp, out, readings, nextId, previous_hash, current_hash, reading_id,
                  fetched, updated_count, txn, sealed, tampered, rebuilt,
                  failures >>

\* previous_hash = get_latest_hash(); current_hash = generate_reading_hash(...)
InsertGetLatestHash(p) ==
  /\ pc[p] = "get_latest_hash"
  /\ TailReadable(p)
  /\ LET prev == get_latest_hash(readings)
     IN /\ previous_hash' = [previous_hash EXCEPT ![p] = prev]
        /\ current_hash' = [current_hash EXCEPT ![p] =
             generate_reading_hash(args[p].timestamp, args[p].segment_id,
               args[p].sensor_id, args[p].pressure_psig, args[p].maop_psig,
               args[p].recorded_by, args[p].data_source, prev)]
  /\ pc' = [pc EXCEPT ![p] = "execute"]
  /\ UNCHANGED << ledgerVars, df, inp, out, readings, nextId, args, reading_id, fetched, updated_count,
                  txn, ret, before, sealed, tampered, rebuilt, failures >>

\* cursor.execute(INSERT ... OUTPUT INSERTED.ReadingID); cursor.fetchone()[0]
InsertExecute(p) ==
  /\ pc[p] = "execute"
  /\ LET row == InsertedRow(nextId, args[p], current_hash[p])
     IN IF Autocommit
        THEN /\ readings' = InsertRows(readings, row)
             /\ txn' = txn
        ELSE /\ readings' = readings
             /\ txn' = [txn EXCEPT ![p].ins = Append(@, row)]
  /\ reading_id' = [reading_id EXCEPT ![p] = nextId]
  /\ nextId' = nextId + 1
  /\ pc' = [pc EXCEPT ![p] = "commit"]
  /\ UNCHANGED << ledgerVars, df, inp, out, args, previous_hash, current_hash, fetched, updated_count,
                  ret, before, sealed, tampered, rebuilt, failures >>

\* conn.commit(); return reading_id, current_hash
InsertCommit(p) ==
  /\ pc[p] = "commit"
  /\ readings' = Committed(readings, txn[p])
  /\ sealed' = Append(sealed, [ReadingID |-> reading_id[p], args |-> args[p],
                               previous_hash |-> previous_hash[p]])
  /\ Return(p, [NoRet EXCEPT !.op = "insert", !.reading_id = reading_id[p],
                             !.hash = current_hash[p]])
  /\ UNCHANGED << ledgerVars, df, inp, out, nextId, before, tampered, rebuilt, failures >>


(***************************************************************************)
(* verify_hash_chain.                                                      *)
(***************************************************************************)
\* expected_hash of one fetched row under the running previous_hash.
expected_hash(reading, prev) ==
  generate_reading_hash(reading.Timestamp, reading.SegmentID, reading.SensorID,
                        reading.PressurePSIG, reading.MAOP_PSIG,
                        reading.RecordedBy, reading.DataSource, prev)

\* The for loop over the fetched rows, from row i on.
RECURSIVE verify_loop(_, _, _, _)
verify_loop(rows, i, prev, total_checked) ==
  IF i > Len(rows)
  THEN <<TRUE, NoId, total_checked>>
  ELSE IF rows[i].hash_signature # expected_hash(rows[i], prev)
       THEN <<FALSE, rows[i].ReadingID, total_checked>>
       ELSE verify_loop(rows, i + 1, rows[i].hash_signature, total_checked + 1)

\* Mutant: total_checked is incremented before the comparison.
RECURSIVE verify_loop_counts_first(_, _, _, _)
verify_loop_counts_first(rows, i, prev, total_checked) ==
  IF i > Len(rows)
  THEN <<TRUE, NoId, total_checked>>
  ELSE IF rows[i].hash_signature # expected_hash(rows[i], prev)
       THEN <<FALSE, rows[i].ReadingID, total_checked + 1>>
       ELSE verify_loop_counts_first(rows, i + 1, rows[i].hash_signature,
                                     total_checked + 1)

verify_hash_chain_counts_first(rows) ==
  IF rows = <<>>
  THEN <<TRUE, NoId, 0>>
  ELSE verify_loop_counts_first(rows, 1, PyStr(""), 0)

\* Mutant: verify reads the readings of DataQuality 'GOOD' only, as
\* load_telemetry does.
verify_hash_chain_of_good(rows) ==
  LET good == SelectSeq(rows, LAMBDA r : r.DataQuality = PyStr("GOOD"))
  IN IF good = <<>>
     THEN <<TRUE, NoId, 0>>
     ELSE verify_loop(good, 1, PyStr(""), 0)

verify_hash_chain(rows) ==
  IF rows = <<>>
  THEN <<TRUE, NoId, 0>>
  ELSE verify_loop(rows, 1, PyStr(""), 0)

\* One SELECT of the whole table, then the loop over the fetched rows.
VerifyCall(p) ==
  /\ pc[p] = "idle"
  /\ TableReadable(p)
  /\ LET r == verify_hash_chain(readings)
     IN ret' = [ret EXCEPT ![p] = [NoRet EXCEPT !.op = "verify",
                                               !.after = IF ret[p].ok
                                                         THEN ret[p].op
                                                         ELSE "raised",
                                               !.valid = r[1],
                                               !.broken = r[2], !.count = r[3]]]
  /\ UNCHANGED << ledgerVars, df, inp, out, readings, nextId, pc, args, previous_hash, current_hash,
                  reading_id, fetched, updated_count, txn, before, sealed,
                  tampered, rebuilt, failures >>

(***************************************************************************)
(* rebuild_hash_chain.                                                     *)
(***************************************************************************)
RebuildCall(p) ==
  /\ pc[p] = "idle"
  /\ \A q \in Procs : pc[q] \notin {"rb_select", "rb_loop"}
  /\ pc' = [pc EXCEPT ![p] = "rb_select"]
  /\ before' = [before EXCEPT ![p] = readings]
  /\ ret' = [ret EXCEPT ![p] = NoRet]
  /\ UNCHANGED << ledgerVars, df, inp, out, readings, nextId, args, previous_hash, current_hash,
                  reading_id, fetched, updated_count, txn, sealed, tampered,
                  rebuilt, failures >>

\* cursor.execute(SELECT ... ORDER BY ReadingID ASC); readings = fetchall()
RebuildSelect(p) ==
  /\ pc[p] = "rb_select"
  /\ TableReadable(p)
  /\ fetched' = [fetched EXCEPT ![p] = readings]
  /\ previous_hash' = [previous_hash EXCEPT ![p] = PyStr("")]
  /\ updated_count' = [updated_count EXCEPT ![p] = 0]
  /\ pc' = [pc EXCEPT ![p] = "rb_loop"]
  /\ UNCHANGED << ledgerVars, df, inp, out, readings, nextId, args, current_hash, reading_id, txn, ret,
                  before, sealed, tampered, rebuilt, failures >>

\* Mutant: previous_hash is not threaded through rebuild's loop.
new_hash_unchained(reading, prev) ==
  generate_reading_hash(reading.Timestamp, reading.SegmentID, reading.SensorID,
                        reading.PressurePSIG, reading.MAOP_PSIG,
                        reading.RecordedBy, reading.DataSource, PyStr(""))

\* new_hash of one fetched row in rebuild's loop.
new_hash(reading, prev) ==
  generate_reading_hash(reading.Timestamp, reading.SegmentID, reading.SensorID,
                        reading.PressurePSIG, reading.MAOP_PSIG,
                        reading.RecordedBy, reading.DataSource, prev)

\* One iteration of the loop: new_hash, the UPDATE, previous_hash = new_hash.
RebuildUpdate(p) ==
  /\ pc[p] = "rb_loop"
  /\ updated_count[p] < Len(fetched[p])
  /\ LET reading == fetched[p][updated_count[p] + 1]
         h == new_hash(reading, previous_hash[p])
     IN /\ IF Autocommit
           THEN /\ readings' = UpdateRows(readings, reading.ReadingID, h)
                /\ txn' = txn
           ELSE /\ readings' = readings
                /\ txn' = [txn EXCEPT ![p].upd = Append(@, <<reading.ReadingID, h>>)]
        /\ previous_hash' = [previous_hash EXCEPT ![p] = h]
  /\ updated_count' = [updated_count EXCEPT ![p] = @ + 1]
  /\ UNCHANGED << ledgerVars, df, inp, out, nextId, pc, args, current_hash, reading_id, fetched, ret,
                  before, sealed, tampered, rebuilt, failures >>

\* conn.commit(); return updated_count
RebuildCommit(p) ==
  /\ pc[p] = "rb_loop"
  /\ updated_count[p] = Len(fetched[p])
  /\ readings' = Committed(readings, txn[p])
  /\ rebuilt' = TRUE
  /\ Return(p, [NoRet EXCEPT !.op = "rebuild", !.count = updated_count[p]])
  /\ UNCHANGED << ledgerVars, df, inp, out, nextId, before, sealed, tampered, failures >>

(***************************************************************************)
(* A store failure: the pending statement raises, the with block closes    *)
(* the connection (rolling back what was not committed) and the exception  *)
(* reaches the caller.  Neither function catches it or retries.            *)
(***************************************************************************)
InCall == {"get_latest_hash", "execute", "commit", "rb_select", "rb_loop"}

OpOf(p) == IF pc[p] \in {"rb_select", "rb_loop"} THEN "rebuild" ELSE "insert"

\* Write statements the failing call had executed on its connection.
Executed(p) == Len(txn[p].ins) + Len(txn[p].upd)

StoreFails(p) ==
  /\ pc[p] \in InCall
  /\ failures < MaxFailures
  /\ failures' = failures + 1
  /\ Return(p, [NoRet EXCEPT !.op = OpOf(p), !.ok = FALSE,
                             !.count = Executed(p)])
  /\ UNCHANGED << ledgerVars, df, inp, out, readings, nextId, before, sealed, tampered, rebuilt >>

(***************************************************************************)
(* Tampering: a direct UPDATE of one column of one stored row that does    *)
(* not recompute any hash (demo_hash_integrity.py, demo_tamper_detection). *)
(* It is modelled on the ledger that insert produced, each cell at most    *)
(* once, before any rebuild has re-sealed the ledger.                      *)
(***************************************************************************)
HashedColumns == {"Timestamp", "SegmentID", "SensorID", "PressurePSIG",
                  "MAOP_PSIG", "RecordedBy", "DataSource"}

ColumnValues(c) ==
  CASE c = "Timestamp"      -> {PyDatetime(m) : m \in Minutes}
    [] c = "SegmentID"      -> {PyStr("SEG-01"), PyStr("SEG-02")}
    [] c = "SensorID"       -> {PyInt(1), PyInt(2), PyNone}
    [] c = "PressurePSIG"   -> {PyFloat(750), PyFloat(800)}
    [] c = "MAOP_PSIG"      -> {PyFloat(1000), PyFloat(950)}
    [] c = "RecordedBy"     -> {PyStr("SCADA"), PyStr("OPERATOR")}
    [] c = "DataSource"     -> {PyStr("SCADA"), PyStr("MANUAL")}
    [] c = "hash_signature" -> {PyNone, PyStr("sha256(forged)")}
    [] c = "DataQuality"    -> {PyStr("GOOD"), PyStr("SUSPECT")}
    [] c = "Notes"          -> {PyNone, PyStr("recalibrated")}

AllIdle == \A q \in Procs : pc[q] = "idle"

Tamper(i, c, v) ==
  /\ AllIdle
  /\ Cardinality(tampered) < MaxTampers
  /\ ~rebuilt
  /\ i \in DOMAIN readings
  /\ <<readings[i].ReadingID, c>> \notin tampered
  /\ v \in ColumnValues(c)
  /\ readings[i][c] # v
  /\ readings' = [readings EXCEPT ![i][c] = v]
  /\ tampered' = tampered \cup {<<readings[i].ReadingID, c>>}
  /\ ret' = [p \in Procs |-> NoRet]
  /\ before' = [p \in Procs |-> <<>>]
  /\ UNCHANGED << ledgerVars, df, inp, out, nextId, pc, args, previous_hash, current_hash, reading_id,
                  fetched, updated_count, txn, sealed, rebuilt, failures >>

(***************************************************************************)
(* Whole calls: a call that runs alone and meets no store failure, taken   *)
(* as one step from its first statement to its return.                     *)
(***************************************************************************)
insert_reading_with_hash(p, a) ==
  /\ AllIdle
  /\ Len(readings) < MaxReadings
  /\ LET prev == get_latest_hash(readings)
         h == generate_reading_hash(a.timestamp, a.segment_id, a.sensor_id,
                a.pressure_psig, a.maop_psig, a.recorded_by, a.data_source, prev)
         row == InsertedRow(nextId, a, h)
     IN /\ readings' = Committed(readings, [ins |-> <<row>>, upd |-> <<>>])
        /\ sealed' = Append(sealed, [ReadingID |-> nextId, args |-> a,
                                     previous_hash |-> prev])
        /\ ret' = [ret EXCEPT ![p] = [NoRet EXCEPT !.op = "insert",
                                        !.reading_id = nextId, !.hash = h]]
  /\ nextId' = nextId + 1
  /\ UNCHANGED << ledgerVars, df, inp, out, pc, args, previous_hash, current_hash, reading_id, fetched,
                  updated_count, txn, before, tampered, rebuilt, failures >>

\* The writes of rebuild's loop over the fetched rows, from row i on.
RECURSIVE rebuild_loop(_, _, _)
rebuild_loop(rows, i, prev) ==
  IF i > Len(rows)
  THEN <<>>
  ELSE LET h == new_hash(rows[i], prev)
       IN <<(<<rows[i].ReadingID, h>>)>> \o rebuild_loop(rows, i + 1, h)

rebuild_hash_chain(p) ==
  /\ AllIdle
  /\ readings' = Committed(readings, [ins |-> <<>>,
                                      upd |-> rebuild_loop(readings, 1, PyStr(""))])
  /\ rebuilt' = TRUE
  /\ ret' = [ret EXCEPT ![p] = [NoRet EXCEPT !.op = "rebuild",
                                             !.count = Len(readings)]]
  /\ UNCHANGED << ledgerVars, df, inp, out, nextId, pc, args, previous_hash, current_hash, reading_id,
                  fetched, updated_count, txn, before, sealed, tampered,
                  failures >>

(***************************************************************************)
(* Calls made one at a time by one client, with tampering between calls.   *)
(***************************************************************************)
Next ==
  \/ \E p \in SerialProcs, a \in Calls : insert_reading_with_hash(p, a)
  \/ \E p \in SerialProcs : VerifyCall(p)
  \/ \E p \in SerialProcs : rebuild_hash_chain(p)
  \/ \E i \in 1..MaxReadings, c \in HashedColumns \cup {"hash_signature"} :
        \E v \in ColumnValues(c) : Tamper(i, c, v)

Spec == Init /\ [][Next]_vars

(***************************************************************************)
(* Calls made one at a time by one client, the store failing at any point. *)
(***************************************************************************)
NextFail ==
  \/ \E p \in SerialProcs, a \in Calls : InsertCall(p, a)
  \/ \E p \in SerialProcs : InsertGetLatestHash(p)
  \/ \E p \in SerialProcs : InsertExecute(p)
  \/ \E p \in SerialProcs : InsertCommit(p)
  \/ \E p \in SerialProcs : VerifyCall(p)
  \/ \E p \in SerialProcs : RebuildCall(p)
  \/ \E p \in SerialProcs : RebuildSelect(p)
  \/ \E p \in SerialProcs : RebuildUpdate(p)
  \/ \E p \in SerialProcs : RebuildCommit(p)
  \/ \E p \in SerialProcs : StoreFails(p)

SpecFail == Init /\ [][NextFail]_vars


(***************************************************************************)
(* Two clients whose calls interleave statement by statement.  The store   *)
(* serialises single statements only: nothing in hash_chain.py takes a     *)
(* lock or opens a transaction around the tail read and the INSERT.        *)
(***************************************************************************)
NextConc ==
  \/ \E p \in Procs, a \in DatetimeCalls : InsertCall(p, a)
  \/ \E p \in Procs : InsertGetLatestHash(p)
  \/ \E p \in Procs : InsertExecute(p)
  \/ \E p \in Procs : InsertCommit(p)
  \/ \E p \in Procs : VerifyCall(p)
  \/ \E p \in Procs : RebuildCall(p)
  \/ \E p \in Procs : RebuildSelect(p)
  \/ \E p \in Procs : RebuildUpdate(p)
  \/ \E p \in Procs : RebuildCommit(p)
  \/ \E i \in 1..MaxReadings : \E v \in ColumnValues("PressurePSIG") :
        Tamper(i, "PressurePSIG", v)

SpecConc == Init /\ [][NextConc]_vars

(***************************************************************************)
(* Calls made one at a time by one client with every kind of argument      *)
(* insert accepts.  Whether the columns of dbo.Readings accept NULL is the *)
(* schema's choice, which the repository does not hold: an INSERT that     *)
(* binds None either stores NULL or is rejected by the store.              *)
(***************************************************************************)
NullArgument(a) ==
  \E f \in {"timestamp", "segment_id", "sensor_id", "pressure_psig",
             "maop_psig", "recorded_by", "data_source"} : a[f] = PyNone

\* cursor.execute(INSERT ...) raises: the column is NOT NULL.
InsertRejected(p, a) ==
  /\ AllIdle
  /\ NullArgument(a)
  /\ ret' = [ret EXCEPT ![p] = [NoRet EXCEPT !.op = "insert", !.ok = FALSE]]
  /\ UNCHANGED << ledgerVars, df, inp, out, readings, nextId, pc, args, previous_hash, current_hash,
                  reading_id, fetched, updated_count, txn, before, sealed,
                  tampered, rebuilt, failures >>

NullableColumns == {"SensorID", "hash_signature"}

NextInput ==
  \/ \E p \in SerialProcs, a \in AllCalls : insert_reading_with_hash(p, a)
  \/ \E p \in SerialProcs, a \in AllCalls : InsertRejected(p, a)
  \/ \E p \in SerialProcs : VerifyCall(p)
  \/ \E p \in SerialProcs : rebuild_hash_chain(p)
  \/ \E i \in 1..MaxReadings, c \in NullableColumns : Tamper(i, c, PyNone)

SpecInput == Init /\ [][NextInput]_vars

(***************************************************************************)
(* Calls made one at a time by one client, and between them statements of  *)
(* whoever has write access to dbo.Readings: a DELETE of some readings, an *)
(* UPDATE of a column that is stored but not hashed.                       *)
(***************************************************************************)
UnhashedColumns == {"DataQuality", "Notes"}

\* The rows at the positions not in S.
Remaining(rows, S) ==
  LET kept(i) == Cardinality({ j \in 1..i : j \notin S })
  IN [k \in 1..(Len(rows) - Cardinality(S)) |->
        rows[CHOOSE i \in DOMAIN rows : i \notin S /\ kept(i) = k]]

\* DELETE FROM dbo.Readings WHERE ..., committed: the rows at the positions
\* S go; the identity column does not issue their ReadingIDs again.
Delete(S) ==
  /\ AllIdle
  /\ S # {}
  /\ S \subseteq DOMAIN readings
  /\ readings' = Remaining(readings, S)
  /\ ret' = [p \in Procs |-> NoRet]
  /\ before' = [p \in Procs |-> <<>>]
  /\ UNCHANGED << ledgerVars, df, inp, out, nextId, pc, args, previous_hash, current_hash,
                  reading_id, fetched, updated_count, txn, sealed, tampered,
                  rebuilt, failures >>

\* An insert while the identity column has issued fewer than MaxReadings
\* values.
EditInsert(p, a) ==
  /\ nextId <= MaxReadings
  /\ insert_reading_with_hash(p, a)

NextEdit ==
  \/ \E p \in SerialProcs, a \in Calls : EditInsert(p, a)
  \/ \E p \in SerialProcs : VerifyCall(p)
  \/ \E S \in SUBSET (1..MaxReadings) : Delete(S)
  \/ \E i \in 1..MaxReadings, c \in UnhashedColumns :
        \E v \in ColumnValues(c) : Tamper(i, c, v)

SpecEdit == Init /\ [][NextEdit]_vars


(***************************************************************************)
(* Properties.                                                             *)
(***************************************************************************)
Client == CHOOSE p \in SerialProcs : TRUE

\* Rows with a smaller ReadingID than id.
RowsBefore(rows, id) == Cardinality({i \in DOMAIN rows : rows[i].ReadingID < id})

\* The one tampered cell, when exactly one cell was tampered.
TamperedCell == CHOOSE t \in tampered : TRUE

\* Every committed insert was called with a datetime object as timestamp.
OnlyDatetimeCalls == \A k \in DOMAIN sealed : sealed[k].args \in DatetimeCalls

\* C1: on a chain of two or more readings that insert produced, after one
\* hashed column of one stored reading is changed without recomputing any
\* hash, verify returns invalid, the broken id is that reading's ReadingID
\* and the count is the number of readings with a smaller ReadingID.
C1_TamperedReadingReported ==
  ( /\ ret[Client].op = "verify"
    /\ ~rebuilt
    /\ Len(readings) >= 2
    /\ Cardinality(tampered) = 1
    /\ TamperedCell[2] \in HashedColumns )
  => /\ ret[Client].valid = FALSE
     /\ ret[Client].broken = TamperedCell[1]
     /\ ret[Client].count = RowsBefore(readings, TamperedCell[1])

\* C1, restricted to chains whose inserts all passed a datetime object.
C1_TamperedReadingReportedForDatetimeCalls ==
  OnlyDatetimeCalls => C1_TamperedReadingReported

\* C2: after n >= 0 inserts made one at a time from the empty table, with
\* no other change of the table, verify returns (True, None, n).
C2_UntouchedChainVerifies ==
  ( /\ ret[Client].op = "verify"
    /\ ~rebuilt
    /\ tampered = {} )
  => /\ ret[Client].valid = TRUE
     /\ ret[Client].broken = NoId
     /\ ret[Client].count = Len(readings)

\* C2, restricted to chains whose inserts all passed a datetime object.
C2_UntouchedChainVerifiesForDatetimeCalls ==
  OnlyDatetimeCalls => C2_UntouchedChainVerifies

\* Rows whose hash_signature differs from the digest of their own stored
\* columns and the stored hash_signature of their predecessor.
Broken(rows) ==
  { i \in DOMAIN rows :
      rows[i].hash_signature #
        expected_hash(rows[i], IF i = 1 THEN PyStr("")
                               ELSE rows[i - 1].hash_signature) }

FirstBroken(rows) == CHOOSE i \in Broken(rows) : \A j \in Broken(rows) : i <= j

\* C3: when some stored reading is broken, verify returns (False, id, k)
\* with id the smallest broken ReadingID and k the number of readings with
\* a smaller ReadingID, and the rows after it do not affect the result.
C3_EarliestBrokenReported ==
  (ret[Client].op = "verify" /\ Broken(readings) # {})
  => LET b == FirstBroken(readings)
         r == <<ret[Client].valid, ret[Client].broken, ret[Client].count>>
     IN /\ r = <<FALSE, readings[b].ReadingID, b - 1>>
        /\ r[3] = RowsBefore(readings, readings[b].ReadingID)
        /\ r = verify_hash_chain(SubSeq(readings, 1, b))

\* C3 witness: verify has returned on a table with two broken readings, the
\* first of them after a reading that verifies.
C3_Witness ==
  /\ ret[Client].op = "verify"
  /\ Cardinality(Broken(readings)) >= 2
  /\ FirstBroken(readings) > 1


\* The row whose ReadingID the last insert returned, and the call it sealed.
Returned(p) == CHOOSE k \in DOMAIN readings :
                 readings[k].ReadingID = ret[p].reading_id

LastSealed == sealed[Len(sealed)]

\* The digest of the arguments a under the previous digest prev.
Digest(a, prev) ==
  generate_reading_hash(a.timestamp, a.segment_id, a.sensor_id, a.pressure_psig,
                        a.maop_psig, a.recorded_by, a.data_source, prev)

C6_RebuildThenVerifyValid ==
  (ret[Client].op = "verify" /\ ret[Client].after = "rebuild")
  => /\ ret[Client].valid = TRUE
     /\ ret[Client].broken = NoId
     /\ ret[Client].count = Len(readings)

\* C6 witness: verify has returned right after a rebuild of a table of two
\* or more readings that held a tampered cell.
C6_Witness ==
  /\ ret[Client].op = "verify"
  /\ ret[Client].after = "rebuild"
  /\ tampered # {}
  /\ Len(readings) >= 2


\* The digest of the k-th of a sequence of calls made from the empty table,
\* as a function of the calls' arguments alone.
RECURSIVE ChainDigest(_, _)
ChainDigest(calls, k) ==
  Digest(calls[k].args, IF k = 1 THEN PyStr("") ELSE ChainDigest(calls, k - 1))

\* C8: the digests stored by a sequence of inserts made one at a time from
\* the empty table are a function of the sequence of argument sets alone:
\* ReadingID values, failed attempts in between and verify calls do not
\* enter them.
C8_DigestsDeterminedByArguments ==
  ~rebuilt
  => /\ Len(readings) = Len(sealed)
     /\ \A k \in DOMAIN readings :
          /\ readings[k].ReadingID = sealed[k].ReadingID
          /\ readings[k].hash_signature = ChainDigest(sealed, k)

\* C8 witness: three readings are stored, their ReadingIDs not consecutive
\* because an insert between them failed after its identity was assigned.
C8_Witness ==
  /\ ~rebuilt
  /\ Len(readings) = 3
  /\ readings[3].ReadingID > 3

\* The columns of a row other than hash_signature.
SameButHash(r1, r2) ==
  [r1 EXCEPT !.hash_signature = PyNone] = [r2 EXCEPT !.hash_signature = PyNone]

\* C9: no step of insert, verify or rebuild removes a stored reading or
\* changes its ReadingID or any column other than hash_signature, and only
\* a rebuild that returns changes a hash_signature.
C9_StoredReadingsImmutable ==
  [][ /\ Len(readings') >= Len(readings)
      /\ \A i \in DOMAIN readings :
           /\ SameButHash(readings'[i], readings[i])
           /\ (ret'[Client].op # "rebuild" \/ ~ret'[Client].ok)
                => readings'[i] = readings[i] ]_vars

\* C9 witness: a rebuild has returned after giving a stored reading a
\* hash_signature other than the one insert sealed it with.
C9_Witness ==
  /\ ret[Client].op = "rebuild"
  /\ ret[Client].ok
  /\ \E k \in DOMAIN readings :
       readings[k].hash_signature # ChainDigest(sealed, k)

\* C10: when the store fails during insert or rebuild the call raises and
\* the table is as it was when the call began; a call of insert that
\* returns has added one reading.
C10_FailedCallLeavesTableUnchanged ==
  /\ (ret[Client].op \in {"insert", "rebuild"} /\ ~ret[Client].ok)
       => readings = before[Client]
  /\ (ret[Client].op = "insert" /\ ret[Client].ok)
       => /\ Len(readings) = Len(before[Client]) + 1
          /\ SubSeq(readings, 1, Len(before[Client])) = before[Client]

\* C10 witness: a rebuild has raised after executing an UPDATE that gives
\* the first reading another hash_signature than the stored one.
C10_Witness ==
  /\ ret[Client].op = "rebuild"
  /\ ~ret[Client].ok
  /\ ret[Client].count >= 1
  /\ readings[1].hash_signature # new_hash(readings[1], PyStr(""))


\* No two committed inserts were sealed against the same previous digest.
NoFork ==
  \A i, j \in DOMAIN sealed :
    i # j => sealed[i].previous_hash # sealed[j].previous_hash

\* C4: concurrent inserts read the tail and append as one atomic step: no
\* two stored readings are sealed against the same predecessor digest, and
\* once every insert has returned the untouched chain verifies.
C4_ConcurrentInsertsNeverFork ==
  /\ NoFork
  /\ (AllIdle /\ tampered = {} /\ ~rebuilt)
       => verify_hash_chain(readings) = <<TRUE, NoId, Len(readings)>>

\* C7: rebuild excludes concurrent inserts, so once a rebuild and the
\* inserts issued while it ran have returned, the chain verifies.  Forked
\* chains (C4) are left out: the inserts here never overlapped each other.
C7_RebuildExcludesInserts ==
  (AllIdle /\ rebuilt /\ NoFork)
    => verify_hash_chain(readings) = <<TRUE, NoId, Len(readings)>>


(***************************************************************************)
(* Properties of the values that enter the hash input.                     *)
(***************************************************************************)
\* A stored reading with a NULL hashed column or a NULL hash_signature.
Malformed(row) ==
  \E c \in HashedColumns \cup {"hash_signature"} : row[c] = PyNone

MalformedRows == {i \in DOMAIN readings : Malformed(readings[i])}

FirstMalformed == CHOOSE i \in MalformedRows : \A j \in MalformedRows : i <= j

\* C11: when a stored reading has a NULL hashed column or hash_signature
\* and every earlier reading verifies, verify returns, invalid, with that
\* reading's ReadingID as the broken id, also when insert stored the NULL.
C11_MalformedReadingReported ==
  ( /\ ret[Client].op = "verify"
    /\ MalformedRows # {}
    /\ \A j \in Broken(readings) : j >= FirstMalformed )
  => /\ ret[Client].ok
     /\ ret[Client].valid = FALSE
     /\ ret[Client].broken = readings[FirstMalformed].ReadingID

\* C11, restricted to ledgers where no insert bound None and no rebuild ran.
C11_MalformedReadingReportedAfterTamper ==
  ( /\ ~rebuilt
    /\ \A k \in DOMAIN sealed : ~NullArgument(sealed[k].args) )
  => C11_MalformedReadingReported

\* The stored readings that insert produced and nothing has changed since.
Untouched == {k \in DOMAIN readings : \A c \in HashedColumns \cup {"hash_signature"} :
                                         <<readings[k].ReadingID, c>> \notin tampered}

\* The text a timestamp contributes to the hash input.
TimestampText(timestamp) ==
  IF type(timestamp) = "datetime" THEN isoformat(timestamp) ELSE str(timestamp)

\* C12: a reading inserted with a string timestamp is hashed over the same
\* timestamp text at sealing as verify hashes for the datetime read back,
\* so verify recomputes the digest insert stored.
C12_StringTimestampRecomputed ==
  ~rebuilt
  => \A k \in Untouched :
       type(sealed[k].args.timestamp) = "str"
       => /\ TimestampText(sealed[k].args.timestamp)
               = TimestampText(readings[k].Timestamp)
          /\ expected_hash(readings[k], sealed[k].previous_hash)
               = readings[k].hash_signature

\* C13: the pressure and the limit of an untouched reading are rendered to
\* the same text at sealing, from the arguments, as at verification and
\* rebuild, from the stored values, whatever kind of number insert was given.
C13_NumbersRenderedAlike ==
  ~rebuilt
  => \A k \in Untouched :
       /\ str(sealed[k].args.pressure_psig) = str(readings[k].PressurePSIG)
       /\ str(sealed[k].args.maop_psig) = str(readings[k].MAOP_PSIG)

\* C13, restricted to calls that pass Python floats.
C13_NumbersRenderedAlikeForFloats ==
  (\A k \in DOMAIN sealed : type(sealed[k].args.pressure_psig) = "float"
                             /\ type(sealed[k].args.maop_psig) = "float")
  => C13_NumbersRenderedAlike

(***************************************************************************)
(* The transient filter (transient_filter.py).  A pressure, a limit and a  *)
(* threshold are whole numbers; a quotient is kept exactly, as numerator   *)
(* over a positive denominator.  With these values the float arithmetic of *)
(* the code decides every comparison as exact arithmetic does.             *)
(***************************************************************************)
MaxFrame == 3         \* readings in a DataFrame

Quotient(n, d) == IF d < 0 THEN <<0 - n, 0 - d>> ELSE <<n, d>>

\* q >= t for a quotient q and a whole number t.
AtLeast(q, t) == q[1] >= t * q[2]

\* Equality of two quotients as numbers.
SameNumber(q1, q2) == q1[1] * q2[2] = q2[1] * q1[2]

\* (x / maop) * 100 for a quotient x and a limit maop other than 0.
Percent(x, maop) == Quotient(100 * x[1], x[2] * maop)

\* Readings a DataFrame may hold: minute of the Timestamp, SegmentID,
\* PressurePSIG, MAOP_PSIG.
FrameMinutes   == {0, 5, 6}
FrameSegments  == {"SEG-01", "SEG-02"}
FramePressures == {<<940, 1000>>, <<950, 1000>>, <<960, 1000>>,
                   <<960, 0 - 1000>>, <<960, 0>>}

FrameRows ==
  { [Timestamp |-> t, SegmentID |-> g, PressurePSIG |-> pm[1], MAOP_PSIG |-> pm[2]] :
      t \in FrameMinutes, g \in FrameSegments, pm \in FramePressures }

\* The order of the SegmentID strings.
SegmentRank(g) ==
  CASE g = "A" -> 0
    [] g = "SEG-01" -> 1
    [] g = "SEG-02" -> 2
    [] g = "SEG-03" -> 3
    [] g = "SEG-04" -> 4

\* The sort key of sort_values(['SegmentID', 'Timestamp']).
KeyBefore(r1, r2) ==
  \/ SegmentRank(r1.SegmentID) < SegmentRank(r2.SegmentID)
  \/ /\ r1.SegmentID = r2.SegmentID
     /\ r1.Timestamp < r2.Timestamp

\* A row put into a sorted frame behind the rows whose key is not greater.
RECURSIVE InsertSorted(_, _)
InsertSorted(sorted, r) ==
  IF sorted = <<>> \/ KeyBefore(r, Head(sorted))
  THEN <<r>> \o sorted
  ELSE <<Head(sorted)>> \o InsertSorted(Tail(sorted), r)

RECURSIVE sort_values(_)
sort_values(frame) ==
  IF frame = <<>> THEN <<>>
  ELSE InsertSorted(sort_values(SubSeq(frame, 1, Len(frame) - 1)),
                    frame[Len(frame)])

RECURSIVE SumPressure(_)
SumPressure(frame) ==
  IF frame = <<>> THEN 0 ELSE Head(frame).PressurePSIG + SumPressure(Tail(frame))

\* Mutant: the mean counts one absent reading of pressure 0.
mean_with_absent(frame) == Quotient(SumPressure(frame), Len(frame) + 1)

\* Series.mean() of the PressurePSIG column of a frame with rows.
mean(frame) == Quotient(SumPressure(frame), Len(frame))

\* The rows of the reading's segment.
segment_data(frame, segment) ==
  SelectSeq(frame, LAMBDA r : r.SegmentID = segment)

\* Mutant: the window is open at its start.
window_data_open(frame, row, window_minutes) ==
  SelectSeq(segment_data(frame, row.SegmentID),
            LAMBDA r : /\ r.Timestamp > row.Timestamp - window_minutes
                       /\ r.Timestamp <= row.Timestamp)

\* Mutant: the window has no start.
window_data_all(frame, row, window_minutes) ==
  SelectSeq(segment_data(frame, row.SegmentID),
            LAMBDA r : r.Timestamp <= row.Timestamp)

\* Mutant: the window reaches as far after the reading as before it.
window_data_centred(frame, row, window_minutes) ==
  SelectSeq(segment_data(frame, row.SegmentID),
            LAMBDA r : /\ r.Timestamp >= row.Timestamp - window_minutes
                       /\ r.Timestamp <= row.Timestamp + window_minutes)

\* The readings in the time window of a reading, the reading included.
window_data(frame, row, window_minutes) ==
  SelectSeq(segment_data(frame, row.SegmentID),
            LAMBDA r : /\ r.Timestamp >= row.Timestamp - window_minutes
                       /\ r.Timestamp <= row.Timestamp)

\* Mutant: a high reading is a spike unless the average is above 95.
alert_type_strict(current_ratio, avg_ratio) ==
  IF AtLeast(current_ratio, 95)
  THEN IF AtLeast(avg_ratio, 96) THEN "SUSTAINED" ELSE "SPIKE"
  ELSE "NORMAL"

\* The label of a reading in calculate_moving_average.
alert_type(current_ratio, avg_ratio) ==
  IF AtLeast(current_ratio, 95)
  THEN IF AtLeast(avg_ratio, 95) THEN "SUSTAINED" ELSE "SPIKE"
  ELSE "NORMAL"

\* The result row of one reading, its limit not 0.
ResultRow(frame, row, window_minutes) ==
  LET window == window_data(frame, row, window_minutes)
      avg_pressure == mean(window)
      avg_ratio == Percent(avg_pressure, row.MAOP_PSIG)
      current_ratio == Percent(Quotient(row.PressurePSIG, 1), row.MAOP_PSIG)
      label == alert_type(current_ratio, avg_ratio)
  IN [ Timestamp         |-> row.Timestamp,
       SegmentID         |-> row.SegmentID,
       PressurePSIG      |-> row.PressurePSIG,
       MAOP_PSIG         |-> row.MAOP_PSIG,
       InstantRatio      |-> current_ratio,
       MovingAvgPressure |-> avg_pressure,
       MovingAvgRatio    |-> avg_ratio,
       WindowSize        |-> Len(window),
       IsTransient       |-> label = "SPIKE",
       AlertType         |-> label ]

\* What a call gives: a value, or the exception it raised.
Value(v)   == [ok |-> TRUE, error |-> "", value |-> v]
Raises(e)  == [ok |-> FALSE, error |-> e, value |-> <<>>]

\* calculate_moving_average: the frame of result rows, in sorted order.  A
\* limit of 0 raises at the division of two Python floats.
calculate_moving_average(frame, window_minutes) ==
  LET sorted == sort_values(frame)
  IN IF \E i \in DOMAIN sorted : sorted[i].MAOP_PSIG = 0
     THEN Raises("ZeroDivisionError")
     ELSE Value([i \in DOMAIN sorted |-> ResultRow(sorted, sorted[i], window_minutes)])

\* get_smart_alerts: the rows labelled SUSTAINED.  A frame without rows
\* gives a result frame without columns, and selecting on one raises.
get_smart_alerts(frame, window_minutes) ==
  LET filtered_data == calculate_moving_average(frame, window_minutes)
  IN IF ~filtered_data.ok THEN filtered_data
     ELSE IF filtered_data.value = <<>> THEN Raises("KeyError")
     ELSE Value(SelectSeq(filtered_data.value,
                          LAMBDA r : r.AlertType = "SUSTAINED"))

filter_effectiveness(spikes_filtered, total_high_readings, readings_count) ==
  IF total_high_readings > 0
  THEN Quotient(spikes_filtered * 100, total_high_readings)
  ELSE Quotient(0, 1)

get_spike_vs_sustained_summary(frame, window_minutes) ==
  LET filtered_data == calculate_moving_average(frame, window_minutes)
  IN IF ~filtered_data.ok THEN filtered_data
     ELSE IF filtered_data.value = <<>> THEN Raises("KeyError")
     ELSE LET rows == filtered_data.value
              total_high_readings ==
                Len(SelectSeq(rows, LAMBDA r : AtLeast(r.InstantRatio, 95)))
              spikes_filtered == Len(SelectSeq(rows, LAMBDA r : r.AlertType = "SPIKE"))
              sustained_flagged ==
                Len(SelectSeq(rows, LAMBDA r : r.AlertType = "SUSTAINED"))
          IN Value([ total_high_readings  |-> total_high_readings,
                     spikes_filtered      |-> spikes_filtered,
                     sustained_flagged    |-> sustained_flagged,
                     filter_effectiveness |->
                       filter_effectiveness(spikes_filtered, total_high_readings,
                                            Len(rows)),
                     filtered_data        |-> rows ])

\* classify_reading, called with Python numbers: a limit of 0 raises.
classify_reading(current_pressure, maop, moving_avg_pressure, threshold_pct) ==
  IF maop = 0
  THEN Raises("ZeroDivisionError")
  ELSE LET instant_ratio == Percent(current_pressure, maop)
           avg_ratio == Percent(moving_avg_pressure, maop)
       IN IF AtLeast(instant_ratio, threshold_pct)
          THEN IF AtLeast(avg_ratio, threshold_pct)
               THEN Value(<<"SUSTAINED", FALSE, instant_ratio, avg_ratio>>)
               ELSE Value(<<"SPIKE", TRUE, instant_ratio, avg_ratio>>)
          ELSE Value(<<"NORMAL", FALSE, instant_ratio, avg_ratio>>)

(***************************************************************************)
(* The filter applied to frames of readings, loaded in the order of the    *)
(* dashboard's query (ORDER BY Timestamp).                                 *)
(***************************************************************************)
chainVars == << readings, nextId, pc, args, previous_hash, current_hash,
                reading_id, fetched, updated_count, txn, ret, before, sealed,
                tampered, rebuilt, failures >>

WindowMinutes == {5, 1}

RowRank(r) ==
  << r.Timestamp, SegmentRank(r.SegmentID), r.PressurePSIG, r.MAOP_PSIG >>

\* r1 is not behind r2 in the loaded order.
LoadedBefore(r1, r2) ==
  LET a == RowRank(r1)
      b == RowRank(r2)
  IN \/ a[1] < b[1]
     \/ a[1] = b[1] /\ a[2] < b[2]
     \/ a[1] = b[1] /\ a[2] = b[2] /\ a[3] < b[3]
     \/ a[1] = b[1] /\ a[2] = b[2] /\ a[3] = b[3] /\ a[4] <= b[4]

LoadReading(r) ==
  /\ Len(df) < MaxFrame
  /\ df # <<>> => LoadedBefore(df[Len(df)], r)
  /\ df' = Append(df, r)
  /\ out' = NoOut
  /\ UNCHANGED << chainVars, ledgerVars, inp >>

CalculateMovingAverage(window_minutes) ==
  /\ out' = [op |-> "calculate_moving_average", window_minutes |-> window_minutes,
             result |-> calculate_moving_average(df, window_minutes)]
  /\ UNCHANGED << chainVars, ledgerVars, df, inp >>

GetSmartAlerts(window_minutes) ==
  /\ out' = [op |-> "get_smart_alerts", window_minutes |-> window_minutes,
             result |-> get_smart_alerts(df, window_minutes)]
  /\ UNCHANGED << chainVars, ledgerVars, df, inp >>

GetSpikeVsSustainedSummary(window_minutes) ==
  /\ out' = [op |-> "get_spike_vs_sustained_summary",
             window_minutes |-> window_minutes,
             result |-> get_spike_vs_sustained_summary(df, window_minutes)]
  /\ UNCHANGED << chainVars, ledgerVars, df, inp >>

NextFilter ==
  \/ \E r \in FrameRows : LoadReading(r)
  \/ \E w \in WindowMinutes : CalculateMovingAverage(w)
  \/ \E w \in WindowMinutes : GetSmartAlerts(w)
  \/ \E w \in WindowMinutes : GetSpikeVsSustainedSummary(w)

SpecFilter == Init /\ [][NextFilter]_vars

(***************************************************************************)
(* Properties of the transient filter.                                     *)
(***************************************************************************)
\* The result rows of the last call of calculate_moving_average.
Labelled ==
  IF out.op = "calculate_moving_average" /\ out.result.ok
  THEN out.result.value ELSE <<>>

\* pressure / limit >= pct / 100 for the quotient pressure, by the sign of
\* the limit (other than 0).
RatioAtLeast(pressure, limit, pct) ==
  IF limit > 0
  THEN 100 * pressure[1] >= pct * limit * pressure[2]
  ELSE 100 * pressure[1] <= pct * limit * pressure[2]

\* The label of the decision table at threshold pct.
TableLabel(pressure, limit, avg_pressure, pct) ==
  CASE ~RatioAtLeast(Quotient(pressure, 1), limit, pct) -> "NORMAL"
    [] /\ RatioAtLeast(Quotient(pressure, 1), limit, pct)
       /\ RatioAtLeast(avg_pressure, limit, pct)           -> "SUSTAINED"
    [] /\ RatioAtLeast(Quotient(pressure, 1), limit, pct)
       /\ ~RatioAtLeast(avg_pressure, limit, pct)          -> "SPIKE"

InWindow(r) ==
  { j \in DOMAIN df :
      /\ df[j].SegmentID = r.SegmentID
      /\ r.Timestamp - out.window_minutes <= df[j].Timestamp
      /\ df[j].Timestamp <= r.Timestamp }

RECURSIVE SumOver(_)
SumOver(J) ==
  IF J = {} THEN 0
  ELSE LET j == CHOOSE x \in J : TRUE
       IN df[j].PressurePSIG + SumOver(J \ {j})

\* C15: the window of a reading is the readings of its segment with
\* timestamp in [t - window, t], both bounds included, and the average ratio
\* is their mean pressure over the reading's own limit, as a percentage.
C15_WindowAndAverage ==
  \A i \in DOMAIN Labelled :
    LET r == Labelled[i]
        J == InWindow(r)
    IN /\ r.WindowSize = Cardinality(J)
       /\ \E j \in J : /\ df[j].Timestamp = r.Timestamp
                       /\ df[j].PressurePSIG = r.PressurePSIG
                       /\ df[j].MAOP_PSIG = r.MAOP_PSIG
       /\ SameNumber(r.MovingAvgPressure, Quotient(SumOver(J), Cardinality(J)))
       /\ SameNumber(r.MovingAvgRatio,
                     Quotient(100 * SumOver(J), Cardinality(J) * r.MAOP_PSIG))

\* C15 witness: a labelled reading whose window holds a reading exactly
\* window minutes older, of another limit, while the frame holds a reading
\* of the other segment at the same minute.
C15_Witness ==
  \E i \in DOMAIN Labelled :
    LET r == Labelled[i]
    IN /\ r.WindowSize = 2
       /\ \E j \in InWindow(r) :
            /\ df[j].Timestamp = r.Timestamp - out.window_minutes
            /\ df[j].MAOP_PSIG # r.MAOP_PSIG
       /\ \E j \in DOMAIN df : /\ df[j].SegmentID # r.SegmentID
                               /\ df[j].Timestamp = r.Timestamp

SummaryCalled == out.op = "get_spike_vs_sustained_summary"

HighReadings ==
  { j \in DOMAIN df :
      RatioAtLeast(Quotient(df[j].PressurePSIG, 1), df[j].MAOP_PSIG, 95) }

LabelledAs(rows, label) == { i \in DOMAIN rows : rows[i].AlertType = label }

\* C19: the summary returns total_high_readings, the readings with instant
\* ratio >= 95%, spikes_filtered and sustained_flagged, the readings of each
\* label, their sum being total_high_readings, and the effectiveness
\* spikes_filtered / total_high_readings, 0 when total_high_readings is 0.
C19_SummaryCounts ==
  SummaryCalled
  => /\ out.result.ok
     /\ LET v == out.result.value
        IN /\ v.total_high_readings = Cardinality(HighReadings)
           /\ v.spikes_filtered = Cardinality(LabelledAs(v.filtered_data, "SPIKE"))
           /\ v.sustained_flagged =
                Cardinality(LabelledAs(v.filtered_data, "SUSTAINED"))
           /\ v.total_high_readings = v.spikes_filtered + v.sustained_flagged
           /\ SameNumber(v.filter_effectiveness,
                         IF v.total_high_readings > 0
                         THEN Quotient(v.spikes_filtered, v.total_high_readings)
                         ELSE Quotient(0, 1))

\* C19, for the calls that return: the counts are as stated and the
\* effectiveness is the percentage 100 * spikes_filtered / total_high_readings;
\* the calls that raise are those on a frame without readings or with a
\* limit of 0.
C19_SummaryCountsAsPercentage ==
  SummaryCalled
  => IF out.result.ok
     THEN LET v == out.result.value
          IN /\ v.total_high_readings = Cardinality(HighReadings)
             /\ v.spikes_filtered =
                  Cardinality(LabelledAs(v.filtered_data, "SPIKE"))
             /\ v.sustained_flagged =
                  Cardinality(LabelledAs(v.filtered_data, "SUSTAINED"))
             /\ v.total_high_readings = v.spikes_filtered + v.sustained_flagged
             /\ SameNumber(v.filter_effectiveness,
                           IF v.total_high_readings > 0
                           THEN Quotient(100 * v.spikes_filtered,
                                         v.total_high_readings)
                           ELSE Quotient(0, 1))
     ELSE df = <<>> \/ \E j \in DOMAIN df : df[j].MAOP_PSIG = 0

\* Thresholds, in percent, a caller may want.
ThresholdPcts == {95, 90}

\* C20: the labels calculate_moving_average gives are those of the decision
\* table at the threshold the caller wants, 95% or another, over the window
\* the caller gives.
C20_ThresholdFromCaller ==
  \A t \in ThresholdPcts :
    \A i \in DOMAIN Labelled :
      LET r == Labelled[i]
      IN /\ r.WindowSize = Cardinality(InWindow(r))
         /\ r.AlertType = TableLabel(r.PressurePSIG, r.MAOP_PSIG,
                                     r.MovingAvgPressure, t)

(***************************************************************************)
(* The threshold evaluator (demo_logic.py) and classify_reading, called    *)
(* with numbers.  A threshold_ratio is kept in hundredths: 95 is 0.95.     *)
(***************************************************************************)
MaxRules == 3         \* rules in a list of thresholds

Rule(threshold_ratio, status) ==
  [threshold_ratio |-> threshold_ratio, status |-> status]

Rules == { Rule(85, "NOTICE"), Rule(90, "WARNING"), Rule(95, "CRITICAL"),
           Rule(100, "VIOLATION") }

\* Lists of rules of distinct thresholds, in any order.
RuleLists ==
  UNION { { l \in [1..n -> Rules] : \A i, j \in 1..n : i # j => l[i] # l[j] } :
          n \in 0..MaxRules }

\* A rule put into a list sorted from the highest threshold down, behind
\* the rules whose threshold is not lower.
RECURSIVE InsertDescending(_, _)
InsertDescending(sorted, rule) ==
  IF sorted = <<>> \/ rule.threshold_ratio > Head(sorted).threshold_ratio
  THEN <<rule>> \o sorted
  ELSE <<Head(sorted)>> \o InsertDescending(Tail(sorted), rule)

\* Mutant: the rules are left in the order supplied.
sorted_thresholds_as_supplied(thresholds) == thresholds

\* sorted(thresholds, key=lambda x: x['threshold_ratio'], reverse=True)
RECURSIVE sorted_thresholds(_)
sorted_thresholds(thresholds) ==
  IF thresholds = <<>> THEN <<>>
  ELSE InsertDescending(sorted_thresholds(SubSeq(thresholds, 1, Len(thresholds) - 1)),
                        thresholds[Len(thresholds)])

\* The loop over the sorted rules: the status of the first rule matched.
RECURSIVE first_match(_, _)
first_match(ratio, sorted) ==
  IF sorted = <<>> THEN "OK"
  ELSE IF AtLeast(<<100 * ratio[1], ratio[2]>>, Head(sorted).threshold_ratio)
       THEN Head(sorted).status
       ELSE first_match(ratio, Tail(sorted))

evaluate_status(pressure_psig, maop_psig, thresholds) ==
  IF maop_psig <= 0
  THEN Raises("ValueError")
  ELSE Value(first_match(Quotient(pressure_psig, maop_psig),
                         sorted_thresholds(thresholds)))

Pressures == {890, 900, 950, 960, 1000}
Limits    == {1000, 0, 0 - 1000}
Averages  == {940, 950}

ClassifyReading(current_pressure, maop, moving_avg_pressure, threshold_pct) ==
  /\ inp' = [NoInput EXCEPT !.current_pressure = current_pressure,
                            !.maop = maop,
                            !.moving_avg_pressure = moving_avg_pressure,
                            !.threshold_pct = threshold_pct]
  /\ out' = [op |-> "classify_reading",
             result |-> classify_reading(Quotient(current_pressure, 1), maop,
                                         Quotient(moving_avg_pressure, 1),
                                         threshold_pct)]
  /\ UNCHANGED << chainVars, ledgerVars, df >>

EvaluateStatus(pressure_psig, maop_psig, thresholds) ==
  /\ inp' = [NoInput EXCEPT !.current_pressure = pressure_psig,
                            !.maop = maop_psig,
                            !.thresholds = thresholds]
  /\ out' = [op |-> "evaluate_status",
             result |-> evaluate_status(pressure_psig, maop_psig, thresholds)]
  /\ UNCHANGED << chainVars, ledgerVars, df >>

\* main.py: the limit of the test scenario, the pressures of its test
\* table, and the rules loaded from rules.json.
main_maop == 950

test_pressures == << 750, 800, 850, 855, 880, 902, 920, 950, 975 >>

rules_json == << Rule(90, "WARNING"), Rule(95, "CRITICAL"), Rule(100, "VIOLATION") >>

\* One pass of the loop of main over its test table.
Main(i) == EvaluateStatus(test_pressures[i], main_maop, rules_json)

NextNumbers ==
  \/ \E p \in Pressures, m \in Limits, a \in Averages, t \in ThresholdPcts :
        ClassifyReading(p, m, a, t)
  \/ \E p \in Pressures, m \in Limits, l \in RuleLists : EvaluateStatus(p, m, l)
  \/ \E i \in DOMAIN test_pressures : Main(i)

SpecNumbers == Init /\ [][NextNumbers]_vars

(***************************************************************************)
(* Properties of the evaluator and of the limit.                           *)
(***************************************************************************)
\* The rules of a list whose threshold is at or below pressure / limit.
Matching(pressure, limit, l) ==
  { i \in DOMAIN l : 100 * pressure >= l[i].threshold_ratio * limit }

SameRules(l1, l2) ==
  {l1[i] : i \in DOMAIN l1} = {l2[i] : i \in DOMAIN l2}

C18_NonPositiveLimitFails ==
  (out.op \in {"evaluate_status", "classify_reading"} /\ inp.maop <= 0)
  => ~out.result.ok

\* C18, for the evaluator alone.
C18_EvaluatorRejectsNonPositiveLimit ==
  (out.op = "evaluate_status" /\ inp.maop <= 0) => out.result = Raises("ValueError")

\* An evaluation of the test table of main.py.
TableEvaluated ==
  /\ out.op = "evaluate_status"
  /\ inp.maop = main_maop
  /\ inp.thresholds = rules_json
  /\ \E i \in DOMAIN test_pressures : inp.current_pressure = test_pressures[i]

\* C23: with MAOP 950 and the rules WARNING 0.90, CRITICAL 0.95, VIOLATION
\* 1.00, evaluate_status returns OK for 750, 800, 850, WARNING for 855, 880,
\* CRITICAL for 902, 920 and VIOLATION for 950, 975.
C23_TableAsAnnotated ==
  TableEvaluated
  => out.result =
       Value(CASE inp.current_pressure \in {750, 800, 850} -> "OK"
               [] inp.current_pressure \in {855, 880} -> "WARNING"
               [] inp.current_pressure \in {902, 920} -> "CRITICAL"
               [] inp.current_pressure \in {950, 975} -> "VIOLATION")

\* The statuses the code returns for the table: 902 psig is below 95% of
\* 950 psig (902.5) and is a WARNING.
C23_TableOfTheCode ==
  TableEvaluated
  => out.result =
       Value(CASE inp.current_pressure \in {750, 800, 850} -> "OK"
               [] inp.current_pressure \in {855, 880, 902} -> "WARNING"
               [] inp.current_pressure \in {920} -> "CRITICAL"
               [] inp.current_pressure \in {950, 975} -> "VIOLATION")

(***************************************************************************)
(* The filter applied to two recorded sequences of readings: the drift     *)
(* story of populate_demo_data.py and three readings of one segment taken  *)
(* 5 minutes apart.  The story's pressures and limits are kept in tenths   *)
(* of a psig (902.5 psig is 9025), which leaves every ratio as it is.      *)
(***************************************************************************)
\* timeline: minutes after 10:00 and the pressures of SEG-01 .. SEG-04.
timeline ==
  << <<0,  <<7500, 7000, 6500, 8250>> >>,
     <<2,  <<7550, 8550, 6520, 8280>> >>,
     <<3,  <<9650, 8600, 6530, 8290>> >>,
     <<4,  <<7570, 8700, 6540, 8300>> >>,
     <<5,  <<7580, 8800, 6550, 8300>> >>,
     <<7,  <<7600, 9025, 6580, 8320>> >>,
     <<9,  <<7610, 9250, 6590, 10700>> >>,
     <<10, <<7620, 9400, 6600, 8370>> >>,
     <<12, <<7650, 9550, 6620, 8380>> >>,
     <<15, <<7680, 9600, 6650, 8400>> >> >>

StorySegments == << "SEG-01", "SEG-02", "SEG-03", "SEG-04" >>

maop_values == << 10000, 9500, 8750, 11000 >>

\* The k-th reading written by populate_readings_with_story, as the
\* dashboard's query loads it.
StoryReading(k) ==
  LET entry == timeline[((k - 1) \div Len(StorySegments)) + 1]
      g == ((k - 1) % Len(StorySegments)) + 1
  IN [ Timestamp    |-> entry[1],
       SegmentID    |-> StorySegments[g],
       PressurePSIG |-> entry[2][g],
       MAOP_PSIG    |-> maop_values[g] ]

story == [k \in 1..(Len(timeline) * Len(StorySegments)) |-> StoryReading(k)]

\* Three readings of segment "A", 5 minutes apart, limit 1000 psig.
scenario ==
  << [Timestamp |-> 0,  SegmentID |-> "A", PressurePSIG |-> 750, MAOP_PSIG |-> 1000],
     [Timestamp |-> 5,  SegmentID |-> "A", PressurePSIG |-> 900, MAOP_PSIG |-> 1000],
     [Timestamp |-> 10, SegmentID |-> "A", PressurePSIG |-> 960, MAOP_PSIG |-> 1000] >>

Recordings == { story, scenario }

\* The next reading of a recording is inserted and loaded.
LoadRecorded(rows) ==
  /\ Len(df) < Len(rows)
  /\ df = SubSeq(rows, 1, Len(df))
  /\ df' = Append(df, rows[Len(df) + 1])
  /\ out' = NoOut
  /\ UNCHANGED << chainVars, ledgerVars, inp >>

NextStory ==
  \/ \E rows \in Recordings : LoadRecorded(rows)
  \/ \E w \in WindowMinutes : CalculateMovingAverage(w)
  \/ \E w \in WindowMinutes : GetSmartAlerts(w)
  \/ \E w \in WindowMinutes : GetSpikeVsSustainedSummary(w)

SpecStory == Init /\ [][NextStory]_vars

(***************************************************************************)
(* Properties of the filter on the recorded sequences.                     *)
(***************************************************************************)
\* calculate_moving_average has returned for a whole recording, called
\* with a 5-minute window.
Classified(rows) ==
  /\ df = rows
  /\ out.op = "calculate_moving_average"
  /\ out.window_minutes = 5
  /\ out.result.ok

\* The result row of the reading of a segment at a minute.
ResultOf(segment, minute) ==
  CHOOSE x \in {out.result.value[i] : i \in DOMAIN out.result.value} :
    x.SegmentID = segment /\ x.Timestamp = minute

\* C21, as the code has it: of three readings of one segment at pressures
\* 750, 900 and 960, 5 minutes apart, limit 1000, the third is averaged in a
\* 5-minute window with the second alone (the first, 10 minutes before it,
\* is outside the window): the average is 930, ratio 0.93, and the label is
\* SPIKE.
C21_ThirdAveragedWithSecond ==
  Classified(scenario)
  => LET third == ResultOf("A", 10)
     IN /\ third.WindowSize = 2
        /\ SameNumber(third.MovingAvgPressure, Quotient(900 + 960, 2))
        /\ SameNumber(third.MovingAvgRatio, Quotient(93, 1))
        /\ third.AlertType = "SPIKE"

\* C21, as stated: the third reading is averaged over all three readings,
\* average ratio (750 + 900 + 960) / 3 / 1000, and the label is SPIKE.
C21_ThirdAveragedOverAllThree ==
  Classified(scenario)
  => LET third == ResultOf("A", 10)
     IN /\ third.WindowSize = 3
        /\ SameNumber(third.MovingAvgPressure, Quotient(750 + 900 + 960, 3))
        /\ third.AlertType = "SPIKE"

\* C21 witness: the three readings are classified with a 5-minute window and
\* the third is a SPIKE.
C21_Witness ==
  /\ Classified(scenario)
  /\ ResultOf("A", 10).PressurePSIG = 960
  /\ ResultOf("A", 10).AlertType = "SPIKE"

\* The readings of the classified frame that carry a label.
LabelledReadings(label) ==
  { << out.result.value[i].SegmentID, out.result.value[i].Timestamp >> :
      i \in { j \in DOMAIN out.result.value :
                out.result.value[j].AlertType = label } }

\* C22: on the drift story, with a 5-minute window, exactly two readings
\* are SPIKE, SEG-01 at 10:03 (965 psig) and SEG-04 at 10:09 (1070 psig),
\* and SEG-02 at 10:07 (902.5 psig) and at 10:12 (955 psig) is SUSTAINED.
C22_StoryLabels ==
  Classified(story)
  => /\ LabelledReadings("SPIKE") = { <<"SEG-01", 3>>, <<"SEG-04", 9>> }
     /\ ResultOf("SEG-01", 3).PressurePSIG = 9650
     /\ ResultOf("SEG-04", 9).PressurePSIG = 10700
     /\ ResultOf("SEG-02", 7).PressurePSIG = 9025
     /\ ResultOf("SEG-02", 12).PressurePSIG = 9550
     /\ ResultOf("SEG-02", 7).AlertType = "SUSTAINED"
     /\ ResultOf("SEG-02", 12).AlertType = "SUSTAINED"

\* The labels the code gives on the drift story: SEG-02 at 10:07 and at
\* 10:09 is SPIKE as well, and SEG-02 is SUSTAINED from 10:10 on.
C22_StoryLabelsOfTheCode ==
  Classified(story)
  => /\ LabelledReadings("SPIKE") =
          { <<"SEG-01", 3>>, <<"SEG-02", 7>>, <<"SEG-02", 9>>, <<"SEG-04", 9>> }
     /\ LabelledReadings("SUSTAINED") =
          { <<"SEG-02", 10>>, <<"SEG-02", 12>>, <<"SEG-02", 15>> }

(***************************************************************************)
(* What the classification of a reading depends on.                        *)
(***************************************************************************)
\* The result row of reading r in the result of a frame.
Classification(frame, r, window_minutes) ==
  LET rows == calculate_moving_average(frame, window_minutes).value
  IN rows[CHOOSE i \in DOMAIN rows :
            /\ rows[i].Timestamp = r.Timestamp
            /\ rows[i].SegmentID = r.SegmentID
            /\ rows[i].PressurePSIG = r.PressurePSIG
            /\ rows[i].MAOP_PSIG = r.MAOP_PSIG]

SameClassification(x, y) ==
  /\ x.AlertType = y.AlertType
  /\ SameNumber(x.MovingAvgPressure, y.MovingAvgPressure)
  /\ x.WindowSize = y.WindowSize

\* Reading x is of another segment than r, or strictly later.
Outside(r, x) == x.SegmentID # r.SegmentID \/ x.Timestamp > r.Timestamp

\* The frame without the readings outside reading r.
Restricted(frame, r) == SelectSeq(frame, LAMBDA x : ~Outside(r, x))

Reorderings(n) ==
  { p \in [1..n -> 1..n] : \A a, b \in 1..n : a # b => p[a] # p[b] }

\* The result rows of a frame, in no order.
ResultRows(frame, window_minutes) ==
  LET rows == calculate_moving_average(frame, window_minutes).value
  IN { rows[k] : k \in DOMAIN rows }

\* C24: AlertType, MovingAvgPressure and WindowSize of a reading are those
\* computed from the readings of its segment at or before it alone, so they
\* stay as they are when strictly later readings or readings of other
\* segments are added, removed or changed (the filter returning for both
\* frames); and every order of the rows gives the same result rows.
C24_DependsOnEarlierOfSegmentOnly ==
  (out.op = "calculate_moving_average" /\ out.result.ok)
  => /\ \A i \in DOMAIN df :
          calculate_moving_average(Restricted(df, df[i]), out.window_minutes).ok
          => SameClassification(
               Classification(df, df[i], out.window_minutes),
               Classification(Restricted(df, df[i]), df[i], out.window_minutes))
     /\ \A p \in Reorderings(Len(df)) :
          ResultRows([k \in DOMAIN df |-> df[p[k]]], out.window_minutes)
            = { out.result.value[k] : k \in DOMAIN out.result.value }

\* C24 witness: a classified frame holds a reading, a later reading of the
\* same segment one minute after it, and a reading of another segment.
C24_Witness ==
  /\ out.op = "calculate_moving_average"
  /\ out.result.ok
  /\ \E i, j, k \in DOMAIN df :
       /\ df[j].SegmentID = df[i].SegmentID
       /\ df[j].Timestamp = df[i].Timestamp + 1
       /\ df[j].PressurePSIG # df[i].PressurePSIG
       /\ df[k].SegmentID # df[i].SegmentID

(***************************************************************************)
(* Properties of the chain under deletion and under changes of the columns *)
(* that are not hashed.                                                    *)
(***************************************************************************)
ValidChain(rows) == verify_hash_chain(rows)[1]

\* C25: when a reading that has a successor is deleted from a valid chain,
\* verify reports the chain broken at the successor's ReadingID, having
\* counted the remaining readings before the successor.
C25_DeletionReportedAtSuccessor ==
  [][\A i \in DOMAIN readings :
       (ValidChain(readings) /\ i < Len(readings) /\ Delete({i}))
       => verify_hash_chain(readings') =
            << FALSE, readings[i + 1].ReadingID, i - 1 >>]_vars

\* C25 witness: the second of three readings is gone, and verify has
\* reported the third after counting the first.
C25_Witness ==
  /\ Len(readings) = 2
  /\ readings[1].ReadingID = 1
  /\ readings[2].ReadingID = 3
  /\ \A k \in DOMAIN sealed : sealed[k].args \notin StringCalls
  /\ ret[Client].op = "verify"
  /\ ~ret[Client].valid
  /\ ret[Client].broken = 3
  /\ ret[Client].count = 1

\* The signature an insert chains to: that of the stored reading of the
\* greatest ReadingID, "" when none is stored.
TailSignature(rows) ==
  IF rows = <<>> THEN PyStr("") ELSE rows[Len(rows)].hash_signature

\* C26: when the last k >= 1 readings of a valid chain are deleted, verify
\* returns valid with the number of remaining readings; an insert into a
\* valid chain is chained to the signature of its tail, and verify returns
\* valid with one reading more.
C26_SuffixDeletionUnnoticed ==
  [][ValidChain(readings)
     => /\ \A k \in 1..Len(readings) :
             Delete((Len(readings) - k + 1)..Len(readings))
             => verify_hash_chain(readings') = << TRUE, NoId, Len(readings) - k >>
        /\ \A a \in Calls :
             insert_reading_with_hash(Client, a)
             => /\ readings'[Len(readings')].hash_signature =
                     Digest(a, TailSignature(readings))
                /\ verify_hash_chain(readings') = << TRUE, NoId, Len(readings) + 1 >>
    ]_vars

\* C26, for inserts whose timestamp is a datetime object.
C26_SuffixDeletionUnnoticedForDatetimeCalls ==
  [][ValidChain(readings)
     => /\ \A k \in 1..Len(readings) :
             Delete((Len(readings) - k + 1)..Len(readings))
             => verify_hash_chain(readings') = << TRUE, NoId, Len(readings) - k >>
        /\ \A a \in DatetimeCalls :
             insert_reading_with_hash(Client, a)
             => /\ readings'[Len(readings')].hash_signature =
                     Digest(a, TailSignature(readings))
                /\ verify_hash_chain(readings') = << TRUE, NoId, Len(readings) + 1 >>
    ]_vars

\* A reading was inserted behind a deleted suffix, and verify has returned
\* valid with all stored readings counted.
C26_InsertedBehindDeletedSuffix ==
  /\ Len(readings) = 2
  /\ readings[1].ReadingID = 1
  /\ readings[2].ReadingID > 2
  /\ ret[Client].op = "verify"
  /\ ret[Client].valid
  /\ ret[Client].count = 2

\* C27: an UPDATE of the DataQuality or the Notes of a stored reading
\* leaves the result of verify as it was.
C27_UnhashedColumnsNotVerified ==
  [][\A i \in DOMAIN readings : \A c \in UnhashedColumns :
       \A v \in ColumnValues(c) :
         Tamper(i, c, v) => verify_hash_chain(readings') = verify_hash_chain(readings)
    ]_vars

\* C27 witness: the DataQuality of the first of two readings was changed,
\* and verify has returned valid with both counted.
C27_Witness ==
  /\ Len(readings) = 2
  /\ << readings[1].ReadingID, "DataQuality" >> \in tampered
  /\ readings[1].DataQuality = PyStr("SUSPECT")
  /\ ret[Client].op = "verify"
  /\ ret[Client].valid
  /\ ret[Client].count = 2

(***************************************************************************)
(* generate_reading_hash called with text fields that may hold the         *)
(* delimiter.                                                              *)
(***************************************************************************)
PlainTexts == { PyStr("SCADA"), PyStr("MANUAL") }

DelimiterTexts == { PyStr("SCADA|MANUAL"), PyStr("MANUAL|SCADA") }

PreviousHashes == { PyStr(""), PyStr(sha256_hexdigest("genesis")) }

HashInputs ==
  { [Reading(PyDatetime(m), g, n, 750, 1000)
       EXCEPT !.recorded_by = rb, !.data_source = ds] :
      m \in Minutes, g \in FrameSegments, n \in {1, 2},
      rb \in PlainTexts \cup DelimiterTexts, ds \in PlainTexts \cup DelimiterTexts }

GenerateReadingHash(a, prev) ==
  /\ out' = [op |-> "generate_reading_hash", args |-> a, previous_hash |-> prev,
             result |-> Digest(a, prev)]
  /\ UNCHANGED << chainVars, ledgerVars, df, inp >>

NextHash ==
  \E a \in HashInputs, prev \in PreviousHashes : GenerateReadingHash(a, prev)

SpecHash == Init /\ [][NextHash]_vars

\* The seven hashed fields of a call.
HashedFields ==
  { "timestamp", "segment_id", "sensor_id", "pressure_psig", "maop_psig",
    "recorded_by", "data_source" }

Differ(a, b) == \E f \in HashedFields : a[f] # b[f]

\* C28: with the same previous hash, two readings that differ in a hashed
\* field never serialise to the same string (a digest stands for its
\* string), also when a field holds the delimiter.
C28_SerialisationUnambiguous ==
  out.op = "generate_reading_hash"
  => \A b \in HashInputs :
       Differ(out.args, b) => Digest(b, out.previous_hash) # out.result

\* C28, for fields that do not hold the delimiter.
C28_SerialisationUnambiguousWithoutDelimiter ==
  (/\ out.op = "generate_reading_hash"
   /\ out.args.recorded_by \in PlainTexts
   /\ out.args.data_source \in PlainTexts)
  => \A b \in HashInputs :
       (/\ b.recorded_by \in PlainTexts
        /\ b.data_source \in PlainTexts
        /\ Differ(out.args, b))
       => Digest(b, out.previous_hash) # out.result

(***************************************************************************)
(* The ledger of engineering notes: add_engineering_note_with_hash         *)
(* (populate_engineering_reconciliation.py) and add_engineering_note       *)
(* (dashboard.py), which run the same statements.  Two processes run them  *)
(* statement by statement; a supersedes_id of None or 0 is NoId.           *)
(***************************************************************************)
MaxNotes == 3         \* notes added in a behaviour

NoteIds(rows) == { r.NoteID : r \in rows }

NoteRow(rows, id) == CHOOSE r \in rows : r.NoteID = id

\* Mutant: the new note takes the version of the note it supersedes.
version_number_of_superseded(result) ==
  IF result = <<>> THEN 1 ELSE result[1]

\* version_number after the lookup: result is what cursor.fetchone() gave,
\* <<>> for None and when no SELECT was made.
version_number(result) ==
  IF result = <<>> THEN 1 ELSE result[1] + 1

\* The calls that have not reached their INSERT.
BeforeInsert == { q \in Procs : noteCall[q].pc \in {"select", "insert"} }

AddNoteCall(p, supersedes_id) ==
  /\ noteCall[p].pc = "idle"
  /\ nextNoteId + Cardinality(BeforeInsert) <= MaxNotes
  /\ noteCall' = [noteCall EXCEPT ![p] =
                    [NoNoteCall EXCEPT !.pc = "select",
                                       !.supersedes_id = supersedes_id,
                                       !.named = supersedes_id \in NoteIds(notes)]]
  /\ UNCHANGED << chainVars, df, inp, out, notes, nextNoteId, noteLog >>

\* SELECT VersionNumber ... WHERE NoteID = ?, made when supersedes_id is given.
AddNoteSelect(p) ==
  /\ noteCall[p].pc = "select"
  /\ LET supersedes_id == noteCall[p].supersedes_id
         result == IF supersedes_id # NoId /\ supersedes_id \in NoteIds(notes)
                   THEN << NoteRow(notes, supersedes_id).VersionNumber >>
                   ELSE <<>>
     IN noteCall' = [noteCall EXCEPT ![p].pc = "insert",
                                     ![p].version_number = version_number(result)]
  /\ UNCHANGED << chainVars, df, inp, out, notes, nextNoteId, noteLog >>

\* INSERT INTO dbo.EngineeringReconciliation ... 'CURRENT' ... OUTPUT
\* INSERTED.NoteID: the identity value is taken, the row is pending.
AddNoteInsert(p) ==
  /\ noteCall[p].pc = "insert"
  /\ noteCall' = [noteCall EXCEPT
                    ![p].pc = "update",
                    ![p].note_id = nextNoteId,
                    ![p].ins = << [ NoteID         |-> nextNoteId,
                                    VersionNumber  |-> noteCall[p].version_number,
                                    Status         |-> "CURRENT",
                                    SupersededByID |-> NoId ] >>]
  /\ nextNoteId' = nextNoteId + 1
  /\ UNCHANGED << chainVars, df, inp, out, notes, noteLog >>

\* The row a pending write of another connection keeps locked.
LockedByOther(p, id) ==
  \E q \in Procs \ {p} :
    \/ noteCall[q].upd = << id >>
    \/ noteCall[q].ins # <<>> /\ noteCall[q].ins[1].NoteID = id

\* UPDATE ... SET Status = 'SUPERSEDED', SupersededByID = ? WHERE NoteID = ?,
\* made when supersedes_id is given; it waits for the row's lock.
AddNoteUpdate(p) ==
  /\ noteCall[p].pc = "update"
  /\ LET supersedes_id == noteCall[p].supersedes_id
     IN /\ supersedes_id # NoId => ~LockedByOther(p, supersedes_id)
        /\ noteCall' = [noteCall EXCEPT
                          ![p].pc = "commit",
                          ![p].upd = IF supersedes_id # NoId
                                     THEN << supersedes_id >>
                                     ELSE <<>>]
  /\ UNCHANGED << chainVars, df, inp, out, notes, nextNoteId, noteLog >>

\* The rows after the UPDATE of a connection.
Superseded(rows, upd, note_id) ==
  { IF upd = << r.NoteID >>
    THEN [r EXCEPT !.Status = "SUPERSEDED", !.SupersededByID = note_id]
    ELSE r : r \in rows }

\* conn.commit(): the INSERT and the UPDATE become visible together.
AddNoteCommit(p) ==
  /\ noteCall[p].pc = "commit"
  /\ notes' = Superseded(notes \cup { noteCall[p].ins[1] }, noteCall[p].upd,
                         noteCall[p].note_id)
  /\ noteLog' = Append(noteLog, [ NoteID        |-> noteCall[p].note_id,
                                  supersedes_id |-> noteCall[p].supersedes_id,
                                  named         |-> noteCall[p].named ])
  /\ noteCall' = [noteCall EXCEPT ![p].pc = "idle", ![p].ins = <<>>,
                                  ![p].upd = <<>>]
  /\ UNCHANGED << chainVars, df, inp, out, nextNoteId >>

NextNotes ==
  \/ \E p \in Procs, supersedes_id \in 0..MaxNotes : AddNoteCall(p, supersedes_id)
  \/ \E p \in Procs : AddNoteSelect(p)
  \/ \E p \in Procs : AddNoteInsert(p)
  \/ \E p \in Procs : AddNoteUpdate(p)
  \/ \E p \in Procs : AddNoteCommit(p)

SpecNotes == Init /\ [][NextNotes]_vars

(***************************************************************************)
(* Properties of the ledger of engineering notes.                          *)
(***************************************************************************)
\* C29: a call whose supersedes_id named a stored note stores, at its
\* commit and not before, the new note as CURRENT with the version of the
\* superseded note plus one, and with it the superseded note as SUPERSEDED
\* with SupersededByID the new note's id; a call without supersedes_id, or
\* with one that names no note, stores version 1.
C29_SupersedingCall ==
  [][\A p \in Procs :
       AddNoteCommit(p)
       => LET c == noteCall[p]
              new == NoteRow(notes', c.note_id)
          IN /\ c.note_id \notin NoteIds(notes)
             /\ c.named
                => /\ new.Status = "CURRENT"
                   /\ new.VersionNumber =
                        NoteRow(notes, c.supersedes_id).VersionNumber + 1
                   /\ NoteRow(notes, c.supersedes_id).SupersededByID # c.note_id
                   /\ NoteRow(notes', c.supersedes_id).Status = "SUPERSEDED"
                   /\ NoteRow(notes', c.supersedes_id).SupersededByID = c.note_id
             /\ (c.supersedes_id = NoId \/ c.supersedes_id \notin NoteIds(notes'))
                => new.VersionNumber = 1
    ]_vars

\* C29 witness: a call that named note 1 has returned; its note is CURRENT
\* in version 2 and note 1 is SUPERSEDED by it.
C29_Witness ==
  \E p \in Procs :
    /\ noteCall[p].pc = "idle"
    /\ noteCall[p].named
    /\ noteCall[p].supersedes_id = 1
    /\ noteCall[p].note_id \in NoteIds(notes)
    /\ NoteRow(notes, noteCall[p].note_id).Status = "CURRENT"
    /\ NoteRow(notes, noteCall[p].note_id).VersionNumber = 2
    /\ NoteRow(notes, 1).Status = "SUPERSEDED"
    /\ NoteRow(notes, 1).SupersededByID = noteCall[p].note_id

\* The notes created to supersede a note: by calls whose supersedes_id
\* named it.
CreatedToSupersede(id) ==
  { noteLog[k].NoteID : k \in { j \in DOMAIN noteLog :
                                  noteLog[j].named /\ noteLog[j].supersedes_id = id } }

\* The note a note was created to supersede, NoId when none.
Predecessor(id) ==
  LET k == CHOOSE j \in DOMAIN noteLog : noteLog[j].NoteID = id
  IN IF noteLog[k].named THEN noteLog[k].supersedes_id ELSE NoId

\* The first note of the lineage of a note.
RECURSIVE LineageOf(_)
LineageOf(id) ==
  IF Predecessor(id) = NoId THEN id ELSE LineageOf(Predecessor(id))

\* C30: each note has been superseded at most once; the SupersededByID of a
\* SUPERSEDED note names the only note created to supersede it; no two
\* notes are versions of the same predecessor; each lineage holds exactly
\* one CURRENT note.
C30_SupersededAtMostOnce ==
  /\ \A n \in notes : Cardinality(CreatedToSupersede(n.NoteID)) <= 1
  /\ \A n \in notes :
       n.Status = "SUPERSEDED" => CreatedToSupersede(n.NoteID) = { n.SupersededByID }
  /\ \A n \in notes :
       Cardinality({ m \in notes : /\ LineageOf(m.NoteID) = LineageOf(n.NoteID)
                                   /\ m.Status = "CURRENT" }) = 1

\* Two CURRENT notes of version 2 were both created to supersede note 1,
\* whose SupersededByID names the later of them.
C30_TwoVersionsOfOnePredecessor ==
  /\ CreatedToSupersede(1) = {2, 3}
  /\ \A id \in {2, 3} :
       /\ NoteRow(notes, id).Status = "CURRENT"
       /\ NoteRow(notes, id).VersionNumber = 2
  /\ NoteRow(notes, 1).SupersededByID = 3

====
